---- MODULE Spec2Model ----
(***************************************************************************)
(* The AI assistant sidebar (frontend/components/ai-assistant-sidebar.tsx) *)
(* and the chat endpoint (frontend/app/api/chat/route.ts) of goat-scraper. *)
(*                                                                         *)
(* The sidebar is a React component: its useState cells are the variables, *)
(* each event handler is one action.  The chat endpoint is the POST        *)
(* handler: a function of the request body and of what the model           *)
(* invocation does.  The useChat hook of @ai-sdk/react and its transport   *)
(* are the environment between the two: sendMessage posts the request,     *)
(* the hook consumes the response and moves `status`.                      *)
(***************************************************************************)
EXTENDS Integers, Sequences, FiniteSets, TLC

VARIABLES
    mounted,                \* the mount effects have run
    view,                   \* useState "chat" | "settings"
    provider,               \* settings form: selected provider
    apiKey,                 \* settings form: typed key
    savedSettings,          \* {provider, apiKey} used by onSubmit
    localStorage,           \* browser store: ai-provider, ai-api-key
    input,                  \* chat input text (a sequence of characters)
    status,                 \* useChat status
    messages,               \* useChat messages
    activeFileTitle,        \* prop
    activeFileUrl,          \* prop
    activeFileContext,      \* useState string | null
    attachedFilesContext,   \* useState {name, content}[]
    isExtractingContext,    \* useState boolean
    extractions,            \* extractions awaited by the sidebar, oldest first
    pdf,                    \* one run of the extraction functions, page by page
    tabs,                   \* the settings forms of two tabs, each with its save
    pending,                \* requests posted to /api/chat, not yet handled
    responses,              \* responses of the endpoint the caller is still reading
    lastOp                  \* the handler that ran last, and what it did

vars == <<mounted, view, provider, apiKey, savedSettings, localStorage, input,
          status, messages, activeFileTitle, activeFileUrl, activeFileContext,
          attachedFilesContext, isExtractingContext, extractions, pdf, tabs,
          pending, responses, lastOp>>

settingsVars == <<provider, apiKey, savedSettings, localStorage>>
contextVars == <<activeFileTitle, activeFileUrl, activeFileContext,
                 attachedFilesContext, isExtractingContext, extractions, pdf,
                 tabs>>
chatVars == <<status, messages>>
netVars == <<pending, responses>>

-----------------------------------------------------------------------------
(* Bounds of the model *)

\* accepted submissions explored per chat view
MaxTurns == 2
\* text deltas a provider emits for one answer
MaxDeltas == 2

-----------------------------------------------------------------------------
(* Values *)

\* JavaScript null / undefined / an absent JSON field
Null == "<absent>"

\* JavaScript truthiness of a string-or-absent value
Truthy(v) == v # Null /\ v # ""

Providers == {"openai", "anthropic", "google", "ollama"}

\* keys the user types into the settings form
KeyTexts == {"", "k1"}

\* texts the user types into the chat input, as sequences of characters
InputTexts == {<<>>, <<" ">>, <<" ", "a", " ">>}

RECURSIVE trimStart(_)
trimStart(s) == IF s # <<>> /\ Head(s) = " " THEN trimStart(Tail(s)) ELSE s

RECURSIVE trimEnd(_)
trimEnd(s) ==
    IF s # <<>> /\ s[Len(s)] = " " THEN trimEnd(SubSeq(s, 1, Len(s) - 1)) ELSE s

\* no trimming at all
trimNothing(s) == s

\* String.prototype.trim
trim(s) == trimEnd(trimStart(s))

NoAlert == "<no alert>"

\* what a handler leaves in lastOp
Op(name, out, alertText, from) ==
    [op |-> name, out |-> out, alert |-> alertText, from |-> from]

Other == Op("other", "-", NoAlert, "-")

-----------------------------------------------------------------------------
(* State after construction: the useState defaults of the component.  The *)
(* browser store holds whatever an earlier view saved: nothing, or a pair *)
(* written by handleSaveSettings.                                         *)

\* no extraction function is running
NoPdf ==
    [fn |-> Null, numPages |-> 0, maxPages |-> 0, i |-> 1, fullText |-> "",
     read |-> <<>>, at |-> "idle", result |-> Null]

\* two views of the sidebar on one settings store
Tabs == {"tab 1", "tab 2"}

\* a tab whose handleSaveSettings is not running and has not run
NoSave ==
    [provider |-> Null, apiKey |-> Null, at |-> "idle",
     saved |-> [provider |-> Null, apiKey |-> Null]]

StoredSettings ==
    {[provider |-> Null, apiKey |-> Null]}
        \cup [provider : Providers, apiKey : KeyTexts]

Init ==
    /\ mounted = FALSE
    /\ view = "chat"
    /\ provider = "google"
    /\ apiKey = ""
    /\ savedSettings = [provider |-> "google", apiKey |-> ""]
    /\ localStorage \in StoredSettings
    /\ input = <<>>
    /\ status = "ready"
    /\ messages = <<>>
    /\ activeFileTitle = Null
    /\ activeFileUrl = Null
    /\ activeFileContext = Null
    /\ attachedFilesContext = <<>>
    /\ isExtractingContext = FALSE
    /\ extractions = <<>>
    /\ pdf = NoPdf
    /\ tabs = [t \in Tabs |-> NoSave]
    /\ pending = <<>>
    /\ responses = <<>>
    /\ lastOp = Op("init", "-", NoAlert, "-")

-----------------------------------------------------------------------------
(* Settings *)

\* useEffect(() => {...}, []) : load settings on mount
LoadSettings ==
    /\ ~mounted
    /\ mounted' = TRUE
    /\ LET savedProvider == localStorage.provider
           savedKey == localStorage.apiKey
       IN /\ provider' = IF Truthy(savedProvider) THEN savedProvider ELSE provider
          /\ apiKey' = IF Truthy(savedKey) THEN savedKey ELSE apiKey
          /\ savedSettings' =
                 [provider |-> IF Truthy(savedProvider) THEN savedProvider ELSE "google",
                  apiKey |-> IF Truthy(savedKey) THEN savedKey ELSE ""]
    /\ lastOp' = Other
    /\ UNCHANGED <<view, localStorage, input, chatVars, contextVars, netVars>>

\* the Chat / Settings tab buttons
setView(v) ==
    /\ mounted
    /\ view' = v
    /\ lastOp' = Other
    /\ UNCHANGED <<mounted, settingsVars, input, chatVars, contextVars, netVars>>

\* the provider buttons of the settings view
setProvider(p) ==
    /\ mounted
    /\ view = "settings"
    /\ provider' = p
    /\ lastOp' = Other
    /\ UNCHANGED <<mounted, view, apiKey, savedSettings, localStorage, input,
                   chatVars, contextVars, netVars>>

\* the key field of the settings view
setApiKey(k) ==
    /\ mounted
    /\ view = "settings"
    /\ apiKey' = k
    /\ lastOp' = Other
    /\ UNCHANGED <<mounted, view, provider, savedSettings, localStorage, input,
                   chatVars, contextVars, netVars>>

handleSaveSettings ==
    /\ mounted
    /\ view = "settings"
    /\ localStorage' = [provider |-> provider, apiKey |-> apiKey]
    /\ savedSettings' = [provider |-> provider, apiKey |-> apiKey]
    /\ lastOp' = Op("handleSaveSettings", "saved", "Settings saved successfully!", "-")
    /\ UNCHANGED <<mounted, view, provider, apiKey, input, chatVars,
                   contextVars, netVars>>

-----------------------------------------------------------------------------
(* Chat input and submission *)

\* isLoading that forgets the submitted status
isLoadingStreamingOnly == status = "streaming"

\* const isLoading = status === "streaming" || status === "submitted"
isLoading == status = "streaming" \/ status = "submitted"

\* The handler of the chat input.  The input element is rendered disabled
\* while isLoading; the handler itself has no guard, and it is the handler
\* that is modelled, so that onSubmit's own guard is exercised.
handleInputChange(v) ==
    /\ mounted
    /\ view = "chat"
    /\ input' = v
    /\ lastOp' = Other
    /\ UNCHANGED <<mounted, view, settingsVars, chatVars, contextVars, netVars>>

RECURSIVE join(_, _)
\* Array.prototype.join
join(frags, sep) ==
    IF frags = <<>> THEN ""
    ELSE IF Len(frags) = 1 THEN frags[1]
    ELSE frags[1] \o sep \o join(Tail(frags), sep)

\* the attachments pushed before the active document
contextFragmentsAttachedFirst ==
    [i \in 1..Len(attachedFilesContext) |->
            "--- Attached Document: " \o attachedFilesContext[i].name \o " ---\n"
                \o attachedFilesContext[i].content]
    \o (IF Truthy(activeFileTitle) /\ Truthy(activeFileContext)
        THEN << "--- Active Document: " \o activeFileTitle \o " ---\n"
                    \o activeFileContext >>
        ELSE << >>)

\* contextFragments.push(...) for the active document, then for each attachment
contextFragments ==
    (IF Truthy(activeFileTitle) /\ Truthy(activeFileContext)
        THEN << "--- Active Document: " \o activeFileTitle \o " ---\n"
                    \o activeFileContext >>
        ELSE << >>)
    \o [i \in 1..Len(attachedFilesContext) |->
            "--- Attached Document: " \o attachedFilesContext[i].name \o " ---\n"
                \o attachedFilesContext[i].content]

context ==
    IF Len(contextFragments) > 0 THEN join(contextFragments, "\n\n") ELSE Null

\* the body with its context field always set
requestBodyEmptyContext ==
    [provider |-> savedSettings.provider,
     apiKey |-> savedSettings.apiKey,
     context |-> IF context = Null THEN "" ELSE context]

\* the body built from the settings form instead of the saved settings
requestBodyFromForm ==
    [provider |-> provider,
     apiKey |-> apiKey,
     context |-> IF Truthy(context) THEN context ELSE Null]

\* the options.body of sendMessage; an undefined field is not serialised
requestBody ==
    [provider |-> savedSettings.provider,
     apiKey |-> savedSettings.apiKey,
     context |-> IF Truthy(context) THEN context ELSE Null]

userTurns == Cardinality({i \in 1..Len(messages) : messages[i].role = "user"})

\* sendMessage posting its request twice
sendMessageTwice(text, body) ==
    /\ userTurns < MaxTurns
    /\ messages' = Append(messages, [role |-> "user", text |-> text])
    /\ status' = "submitted"
    /\ pending' = pending \o
                    [n \in {1, 2} |->
                         [json |-> TRUE,
                          messages |-> messages',
                          provider |-> body.provider,
                          apiKey |-> body.apiKey,
                          context |-> body.context]]
    /\ UNCHANGED responses

\* sendMessage starting the history afresh with its message
sendMessageNewHistory(text, body) ==
    /\ userTurns < MaxTurns
    /\ messages' = <<[role |-> "user", text |-> text]>>
    /\ status' = "submitted"
    /\ pending' = Append(pending,
                         [json |-> TRUE,
                          messages |-> messages',
                          provider |-> body.provider,
                          apiKey |-> body.apiKey,
                          context |-> body.context])
    /\ UNCHANGED responses

\* useChat's sendMessage with the transport of /api/chat: the user message is
\* pushed, the status becomes submitted and the whole history is posted.
sendMessage(text, body) ==
    /\ userTurns < MaxTurns
    /\ messages' = Append(messages, [role |-> "user", text |-> text])
    /\ status' = "submitted"
    /\ pending' = Append(pending,
                         [json |-> TRUE,
                          messages |-> messages',
                          provider |-> body.provider,
                          apiKey |-> body.apiKey,
                          context |-> body.context])
    /\ UNCHANGED responses

\* the early return without the isLoading test
submitIgnoredBlankOnly == trim(input) = <<>>

\* if (!input.trim() || isLoading) return;
submitIgnored == trim(input) = <<>> \/ isLoading

\* the credential test on the settings form instead of the saved settings
credentialMissingInForm == ~Truthy(apiKey) /\ provider # "ollama"

\* if (!savedSettings.apiKey && savedSettings.provider !== "ollama")
credentialMissing ==
    ~Truthy(savedSettings.apiKey) /\ savedSettings.provider # "ollama"

onSubmit ==
    /\ mounted
    /\ view = "chat"
    /\ IF submitIgnored
          THEN /\ lastOp' = Op("onSubmit", "ignored", NoAlert, status)
               /\ UNCHANGED <<mounted, view, settingsVars, input, chatVars,
                              contextVars, netVars>>
          ELSE IF credentialMissing
          THEN /\ view' = "settings"
               /\ lastOp' = Op("onSubmit", "redirected",
                               "Please configure and save your API Key in the Settings tab first.",
                               status)
               /\ UNCHANGED <<mounted, settingsVars, input, chatVars,
                              contextVars, netVars>>
          ELSE /\ sendMessage(input, requestBody)
               /\ input' = <<>>
               /\ lastOp' = Op("onSubmit", "sent", NoAlert, status)
               /\ UNCHANGED <<mounted, view, settingsVars, contextVars>>

-----------------------------------------------------------------------------
(* The chat endpoint: POST of app/api/chat/route.ts *)

\* JSON.stringify({ error })
errorBody(e) == "{\"error\":\"" \o e \o "\"}"

NoClient == [factory |-> Null, option |-> Null, value |-> Null]
NoModel == [client |-> NoClient, id |-> Null]

\* createOpenAI({ apiKey }) and openai('gpt-4o')
openai(key) ==
    [client |-> [factory |-> "createOpenAI", option |-> "apiKey", value |-> key],
     id |-> "gpt-4o"]

\* createAnthropic({ apiKey }) and anthropic('claude-3-5-sonnet-latest')
anthropic(key) ==
    [client |-> [factory |-> "createAnthropic", option |-> "apiKey", value |-> key],
     id |-> "claude-3-5-sonnet-latest"]

\* createGoogleGenerativeAI({ apiKey }) and google('gemini-2.5-flash')
google(key) ==
    [client |-> [factory |-> "createGoogleGenerativeAI", option |-> "apiKey",
                 value |-> key],
     id |-> "gemini-2.5-flash"]

\* the ollama client that ignores the request's base URL
ollamaLocalOnly(key) ==
    [client |-> [factory |-> "createOllama", option |-> "baseURL",
                 value |-> "http://localhost:11434/api"],
     id |-> "llama3.1"]

\* createOllama({ baseURL: apiKey || "http://localhost:11434/api" }) and
\* ollama('llama3.1')
ollama(key) ==
    [client |-> [factory |-> "createOllama", option |-> "baseURL",
                 value |-> IF Truthy(key) THEN key ELSE "http://localhost:11434/api"],
     id |-> "llama3.1"]

\* the chain with ollama as the fallback instead of Invalid provider
resolveModelFallback(p, key) ==
    IF p = "openai" THEN openai(key)
    ELSE IF p = "anthropic" THEN anthropic(key)
    ELSE IF p = "google" THEN google(key)
    ELSE ollama(key)

\* the if / else-if chain over the provider; its last else is Invalid provider
resolveModel(p, key) ==
    IF p = "openai" THEN openai(key)
    ELSE IF p = "anthropic" THEN anthropic(key)
    ELSE IF p = "google" THEN google(key)
    ELSE IF p = "ollama" THEN ollama(key)
    ELSE NoModel

\* the system prompt handed to streamText
systemPrompt(ctx) ==
    "You are an AI Study Assistant ..."
        \o (IF Truthy(ctx) THEN "\n\nDocument Context:\n" \o ctx ELSE "")

\* the text deltas the provider emits, in order
delta(i) == "d" \o ToString(i)

\* What the model invocation does for one request: convertToModelMessages or
\* streamText throws (with or without a message), or a stream is returned that
\* carries n deltas and then finishes or fails.
Outcomes ==
    [kind : {"raise"}, at : {"convertToModelMessages", "streamText"},
     message : {"", "upstream failure"}]
        \cup [kind : {"stream"}, deltas : 0..MaxDeltas, end : {"finish", "error"}]

\* the chunks of result.toUIMessageStreamResponse()
streamChunks(o) ==
    <<[type |-> "start", text |-> ""]>>
        \o [i \in 1..o.deltas |-> [type |-> "text-delta", text |-> delta(i)]]
        \o <<IF o.end = "finish" THEN [type |-> "finish", text |-> ""]
             ELSE [type |-> "error", text |-> "An error occurred."]>>

\* A response of the endpoint, with what the handler did to produce it: the
\* client and model it created, how often it called streamText, and the
\* message of the error it caught (Null when nothing was thrown).
Response(req, st, body, m, calls, raised, sys, chunks) ==
    [for |-> req, status |-> st, body |-> body, client |-> m.client,
     model |-> m.id, calls |-> calls, raised |-> raised, system |-> sys,
     chunks |-> chunks]

\* the catch block without the default message
caughtNoDefault(req, message, m, calls) ==
    Response(req, 500, errorBody(message), m, calls, message, Null, <<>>)

\* the catch block answering as the validation does
caughtAs400(req, message, m, calls) ==
    Response(req, 400, errorBody("Missing provider or API key"), m, calls,
             message, Null, <<>>)

\* catch (error) { ... status: 500 }
caught(req, message, m, calls) ==
    Response(req, 500,
             errorBody(IF Truthy(message) THEN message
                       ELSE "An error occurred during chat generation"),
             m, calls, message, Null, <<>>)

\* the validation that tests the provider alone
missingProviderOnly(req) == ~Truthy(req.provider)

\* if (!provider || !apiKey)
missingProviderOrKey(req) == ~Truthy(req.provider) \/ ~Truthy(req.apiKey)

\* The handler, for the request req when the model invocation does o.
respond(req, o) ==
    IF ~req.json
        THEN caught(req, "Unexpected token in JSON", NoModel, 0)
    ELSE IF missingProviderOrKey(req)
        THEN Response(req, 400, errorBody("Missing provider or API key"),
                      NoModel, 0, Null, Null, <<>>)
    ELSE LET m == resolveModel(req.provider, req.apiKey) IN
        IF m = NoModel
            THEN Response(req, 400, errorBody("Invalid provider"), NoModel, 0, Null,
                          Null, <<>>)
        ELSE IF o.kind = "raise"
            THEN caught(req, o.message, m,
                        IF o.at = "streamText" THEN 1 ELSE 0)
        ELSE Response(req, 200, Null, m, 1, Null, systemPrompt(req.context),
                      streamChunks(o))

POST ==
    /\ pending # <<>>
    /\ \E o \in Outcomes :
           responses' = Append(responses, respond(Head(pending), o))
    /\ pending' = Tail(pending)
    /\ lastOp' = Other
    /\ UNCHANGED <<mounted, view, settingsVars, input, chatVars, contextVars>>

-----------------------------------------------------------------------------
(* useChat reading the response of its request *)

\* every text delta pushed as a message of its own
appendDeltaAsNewMessage(msgs, d) ==
    Append(msgs, [role |-> "assistant", text |-> <<d>>])

\* the message in progress holding its latest delta only
appendDeltaReplaces(msgs, d) ==
    IF msgs # <<>> /\ msgs[Len(msgs)].role = "assistant"
        THEN [msgs EXCEPT ![Len(msgs)].text = <<d>>]
        ELSE Append(msgs, [role |-> "assistant", text |-> <<d>>])

\* a text delta goes to the assistant message in progress, which is pushed
\* when its first part arrives
appendDelta(msgs, d) ==
    IF msgs # <<>> /\ msgs[Len(msgs)].role = "assistant"
        THEN [msgs EXCEPT ![Len(msgs)].text = Append(@, d)]
        ELSE Append(msgs, [role |-> "assistant", text |-> <<d>>])

\* onError with its console.error only
onErrorSilent(message) == Op("onError", "alert", NoAlert, "-")

\* onError: (error) => { console.error(error); alert(error.message || ...) }
onError(message) ==
    Op("onError", "alert",
       IF Truthy(message) THEN message ELSE "An error occurred fetching the response",
       "-")

readResponse ==
    /\ responses # <<>>
    /\ LET r == Head(responses) IN
        IF r.status # 200
            THEN \* the transport throws Error(await response.text())
                 /\ status' = "error"
                 /\ lastOp' = onError(r.body)
                 /\ responses' = Tail(responses)
                 /\ UNCHANGED messages
        ELSE LET c == Head(r.chunks) IN
            IF c.type = "finish"
                THEN /\ status' = "ready"
                     /\ lastOp' = Other
                     /\ responses' = Tail(responses)
                     /\ UNCHANGED messages
            ELSE IF c.type = "error"
                THEN /\ status' = "error"
                     /\ lastOp' = onError(c.text)
                     /\ responses' = Tail(responses)
                     /\ UNCHANGED messages
            ELSE /\ status' = "streaming"
                 /\ lastOp' = Other
                 /\ responses' = <<[r EXCEPT !.chunks = Tail(@)]>> \o Tail(responses)
                 /\ messages' = IF c.type = "text-delta"
                                    THEN appendDelta(messages, c.text)
                                    ELSE messages
    /\ UNCHANGED <<mounted, view, settingsVars, input, contextVars, pending>>

-----------------------------------------------------------------------------
(* The sidebar with its endpoint *)

Next ==
    \/ LoadSettings
    \/ \E v \in {"chat", "settings"} : setView(v)
    \/ \E p \in Providers : setProvider(p)
    \/ \E k \in KeyTexts : setApiKey(k)
    \/ handleSaveSettings
    \/ \E v \in InputTexts : handleInputChange(v)
    \/ onSubmit
    \/ POST
    \/ readResponse

Spec == Init /\ [][Next]_vars

-----------------------------------------------------------------------------
(* The endpoint on its own: any caller may post any body to /api/chat.  The *)
(* sidebar is not mounted; requests arrive one after the other.             *)

RouteProviders == {Null, ""} \cup Providers \cup {"bogus"}
RouteKeys == {Null, "", "k1", "k2", "http://host:11434/api"}
RouteContexts == {Null, "", "ctx"}

RouteBodies ==
    [json : {TRUE},
     messages : {<<[role |-> "user", text |-> <<"a">>]>>},
     provider : RouteProviders,
     apiKey : RouteKeys,
     context : RouteContexts]
        \cup {[json |-> FALSE, messages |-> <<>>, provider |-> Null,
               apiKey |-> Null, context |-> Null]}

RouteArrive(body) ==
    /\ pending = <<>>
    /\ responses = <<>>
    /\ pending' = <<body>>
    /\ lastOp' = Other
    /\ UNCHANGED <<mounted, view, settingsVars, input, chatVars, contextVars,
                   responses>>

\* the caller has read the response to its end
RouteRead ==
    /\ responses # <<>>
    /\ responses' = Tail(responses)
    /\ lastOp' = Other
    /\ UNCHANGED <<mounted, view, settingsVars, input, chatVars, contextVars,
                   pending>>

InitRoute == Init /\ localStorage = [provider |-> Null, apiKey |-> Null]

NextRoute ==
    \/ \E body \in RouteBodies : RouteArrive(body)
    \/ POST
    \/ RouteRead

SpecRoute == InitRoute /\ [][NextRoute]_vars

-----------------------------------------------------------------------------
(* The documents of the sidebar: the active document of the props, the     *)
(* local files of handleFileUpload and the study queue, with the           *)
(* extractions the component awaits.                                       *)

\* what extractTextFromPdfUrl / extractTextFromFile resolve to for a source
TextOf(src) == "text of " \o src

\* the values of the props activeFileUrl and activeFileTitle; the first is
\* the sidebar with no document open
NoDocument == [url |-> Null, title |-> Null]
Documents == {[url |-> "a.pdf", title |-> "A"], [url |-> "b.pdf", title |-> "B"]}

\* the prop studyQueueItems
StudyQueue == {[url |-> "q1.pdf", title |-> "Q1"], [url |-> "q2.pdf", title |-> "Q2"]}

\* the File objects a user can pick, and the FileLists of one change event
Files == {"f1.pdf", "f2.txt"}
FileLists == {<<>>, <<"f1.pdf">>, <<"f2.txt">>, <<"f1.pdf", "f2.txt">>,
              <<"f2.txt", "f1.pdf">>}

\* an awaited extraction: src is the url or the File, name the name the
\* result is attached under; an upload keeps the FileList of its event and
\* the index i of the loop turn that awaits
Extraction(kind, src, name, files, i) ==
    [kind |-> kind, src |-> src, name |-> name, files |-> files, i |-> i]

\* the sequence s without its element k
RemoveAt(s, k) == [i \in 1..(Len(s) - 1) |-> IF i < k THEN s[i] ELSE s[i + 1]]

\* prev => [name first, then prev]
appendAttachmentFirst(prev, name, content) ==
    <<[name |-> name, content |-> content]>> \o prev

\* prev => [...prev, { name, content }]
appendAttachment(prev, name, content) ==
    Append(prev, [name |-> name, content |-> content])

\* The props change to another document and the effect on [activeFileUrl]
\* runs: fetchContext up to its await.
openDocument(doc) ==
    /\ mounted
    /\ doc.url # activeFileUrl
    /\ activeFileUrl' = doc.url
    /\ activeFileTitle' = doc.title
    /\ IF ~Truthy(doc.url)
          THEN /\ activeFileContext' = Null
               /\ UNCHANGED <<isExtractingContext, extractions>>
          ELSE /\ isExtractingContext' = TRUE
               /\ extractions' = Append(extractions,
                                        Extraction("active", doc.url, doc.title, <<>>, 0))
               /\ UNCHANGED activeFileContext
    /\ lastOp' = Op("fetchContext", IF Truthy(doc.url) THEN "started" ELSE "cleared",
                    NoAlert, doc.url)
    /\ UNCHANGED <<mounted, view, settingsVars, input, chatVars,
                   attachedFilesContext, pdf, tabs, netVars>>

\* the catch of fetchContext without its setActiveFileContext(null)
fetchContextCatchKeeps == activeFileContext

\* catch (err) { console.error(...); setActiveFileContext(null); }
fetchContextCatch == Null

\* fetchContext after its await: extraction k of the active document settles
fetchContextSettle(k, ok) ==
    /\ k \in 1..Len(extractions)
    /\ extractions[k].kind = "active"
    /\ activeFileContext' = IF ok THEN TextOf(extractions[k].src)
                                  ELSE fetchContextCatch
    /\ isExtractingContext' = FALSE
    /\ extractions' = RemoveAt(extractions, k)
    /\ lastOp' = Op("fetchContext", IF ok THEN "extracted" ELSE "failed",
                    NoAlert, extractions[k].src)
    /\ UNCHANGED <<mounted, view, settingsVars, input, chatVars,
                   activeFileTitle, activeFileUrl, attachedFilesContext, pdf, tabs,
                   netVars>>

\* handleSelectFromQueue up to its await
handleSelectFromQueue(url, title) ==
    /\ mounted
    /\ view = "chat"
    /\ isExtractingContext' = TRUE
    /\ extractions' = Append(extractions, Extraction("queue", url, title, <<>>, 0))
    /\ lastOp' = Op("handleSelectFromQueue", "started", NoAlert, title)
    /\ UNCHANGED <<mounted, view, settingsVars, input, chatVars,
                   activeFileTitle, activeFileUrl, activeFileContext,
                   attachedFilesContext, pdf, tabs, netVars>>

\* handleSelectFromQueue after its await
handleSelectFromQueueSettle(k, ok) ==
    /\ k \in 1..Len(extractions)
    /\ extractions[k].kind = "queue"
    /\ IF ok
          THEN /\ attachedFilesContext' =
                      appendAttachment(attachedFilesContext, extractions[k].name,
                                       TextOf(extractions[k].src))
               /\ lastOp' = Op("handleSelectFromQueue", "extracted", NoAlert,
                               extractions[k].name)
          ELSE /\ lastOp' = Op("handleSelectFromQueue", "failed",
                               "Failed to extract context from the study queue pdf.",
                               extractions[k].name)
               /\ UNCHANGED attachedFilesContext
    /\ isExtractingContext' = FALSE
    /\ extractions' = RemoveAt(extractions, k)
    /\ UNCHANGED <<mounted, view, settingsVars, input, chatVars,
                   activeFileTitle, activeFileUrl, activeFileContext, pdf, tabs,
                   netVars>>

\* const file = files[i]; ... await extractTextFromFile(file): turn i of the
\* loop of handleFileUpload at its await
uploadTurn(files, i) == Extraction("upload", files[i + 1], files[i + 1], files, i)

\* handleFileUpload up to the await of its first turn
handleFileUpload(files) ==
    /\ mounted
    /\ view = "chat"
    /\ IF files = <<>>
          THEN /\ lastOp' = Op("handleFileUpload", "ignored", NoAlert, "-")
               /\ UNCHANGED extractions
          ELSE /\ lastOp' = Op("handleFileUpload", "started", NoAlert, Head(files))
               /\ extractions' = Append(extractions, uploadTurn(files, 0))
    /\ UNCHANGED <<mounted, view, settingsVars, input, chatVars,
                   activeFileTitle, activeFileUrl, activeFileContext,
                   attachedFilesContext, isExtractingContext, pdf, tabs, netVars>>

\* one turn of the loop of handleFileUpload after its await, up to the await
\* of the next turn or to the end of the handler
handleFileUploadSettle(k, ok) ==
    /\ k \in 1..Len(extractions)
    /\ extractions[k].kind = "upload"
    /\ IF ok
          THEN /\ attachedFilesContext' =
                      appendAttachment(attachedFilesContext, extractions[k].name,
                                       TextOf(extractions[k].src))
               /\ lastOp' = Op("handleFileUpload", "extracted", NoAlert,
                               extractions[k].name)
          ELSE /\ lastOp' = Op("handleFileUpload", "failed",
                               "Could not read " \o extractions[k].name,
                               extractions[k].name)
               /\ UNCHANGED attachedFilesContext
    /\ extractions' =
          IF extractions[k].i + 1 < Len(extractions[k].files)
             THEN [extractions EXCEPT
                      ![k] = uploadTurn(extractions[k].files, extractions[k].i + 1)]
             ELSE RemoveAt(extractions, k)
    /\ UNCHANGED <<mounted, view, settingsVars, input, chatVars,
                   activeFileTitle, activeFileUrl, activeFileContext,
                   isExtractingContext, pdf, tabs, netVars>>

RECURSIVE filter(_, _, _)
\* Array.prototype.filter with the callback (_, idx) => idx !== indexToRemove,
\* idx being the index of Head(s)
filter(s, idx, indexToRemove) ==
    IF s = <<>> THEN <<>>
    ELSE (IF idx # indexToRemove THEN <<Head(s)>> ELSE <<>>)
            \o filter(Tail(s), idx + 1, indexToRemove)

\* the indices of the callback counted from 1
withoutIndexFromOne(prev, indexToRemove) == filter(prev, 1, indexToRemove)

\* prev.filter((_, idx) => idx !== indexToRemove): array indices count from 0
withoutIndex(prev, indexToRemove) == filter(prev, 0, indexToRemove)

\* the removal refused while a turn is under way
removeAttachmentWhenIdle(indexToRemove) ==
    /\ mounted
    /\ view = "chat"
    /\ ~isLoading
    /\ attachedFilesContext' =
          withoutIndex(attachedFilesContext, indexToRemove)
    /\ lastOp' = Op("removeAttachment", "-", NoAlert, ToString(indexToRemove))
    /\ UNCHANGED <<mounted, view, settingsVars, input, chatVars,
                   activeFileTitle, activeFileUrl, activeFileContext,
                   isExtractingContext, extractions, pdf, tabs, netVars>>

\* setAttachedFilesContext(prev => prev.filter(...))
removeAttachment(indexToRemove) ==
    /\ mounted
    /\ view = "chat"
    /\ attachedFilesContext' =
          withoutIndex(attachedFilesContext, indexToRemove)
    /\ lastOp' = Op("removeAttachment", "-", NoAlert, ToString(indexToRemove))
    /\ UNCHANGED <<mounted, view, settingsVars, input, chatVars,
                   activeFileTitle, activeFileUrl, activeFileContext,
                   isExtractingContext, extractions, pdf, tabs, netVars>>

-----------------------------------------------------------------------------
(* The sidebar and its documents up to the first message sent: the saved   *)
(* settings are complete, the user opens, attaches and removes documents   *)
(* while extractions settle in any order, and then submits.                *)

\* the extractions that may be awaited at once
MaxExtractions == 2

\* the arguments of removeAttachment, some of them past the list
RemoveIndices == -1..4

InputsCtx == {<<>>, <<" ", "a", " ">>}

\* the names attached, awaited or part of a batch that is being read
Busy ==
    {attachedFilesContext[i].name : i \in 1..Len(attachedFilesContext)}
    \cup {extractions[k].name : k \in 1..Len(extractions)}
    \cup UNION {{extractions[k].files[i] : i \in 1..Len(extractions[k].files)} :
                    k \in 1..Len(extractions)}

\* a user attaches a document only while it is neither attached nor on its way
Fresh(names) == \A i \in 1..Len(names) : names[i] \notin Busy

\* no message has been sent yet
BeforeSend == pending = <<>> /\ messages = <<>>

\* another extraction may start
Room == Len(extractions) < MaxExtractions

InitCtx == Init /\ localStorage = [provider |-> "openai", apiKey |-> "k1"]

NextCtx ==
    \/ BeforeSend /\ LoadSettings
    \/ \E v \in InputsCtx : BeforeSend /\ handleInputChange(v)
    \/ BeforeSend /\ onSubmit
    \/ \E doc \in Documents \cup {NoDocument} :
          BeforeSend /\ Room /\ openDocument(doc)
    \/ \E item \in StudyQueue :
          /\ BeforeSend /\ Room /\ Fresh(<<item.title>>)
          /\ handleSelectFromQueue(item.url, item.title)
    \/ \E files \in FileLists :
          BeforeSend /\ Room /\ Fresh(files) /\ handleFileUpload(files)
    \/ \E k \in 1..Len(extractions), ok \in BOOLEAN :
          BeforeSend /\ fetchContextSettle(k, ok)
    \/ \E k \in 1..Len(extractions), ok \in BOOLEAN :
          BeforeSend /\ handleSelectFromQueueSettle(k, ok)
    \/ \E k \in 1..Len(extractions), ok \in BOOLEAN :
          BeforeSend /\ handleFileUploadSettle(k, ok)
    \/ \E idx \in RemoveIndices : BeforeSend /\ removeAttachment(idx)

SpecCtx == InitCtx /\ [][NextCtx]_vars

-----------------------------------------------------------------------------
(* The shape of the state *)

Statuses == {"ready", "submitted", "streaming", "error"}

TypeOK ==
    /\ mounted \in BOOLEAN
    /\ view \in {"chat", "settings"}
    /\ provider \in Providers
    /\ apiKey \in KeyTexts
    /\ savedSettings \in [provider : Providers, apiKey : KeyTexts]
    /\ localStorage \in [provider : Providers \cup {Null}, apiKey : KeyTexts \cup {Null}]
    /\ input \in InputTexts
    /\ status \in Statuses
    /\ \A i \in 1..Len(messages) : messages[i].role \in {"user", "assistant"}
    /\ [url |-> activeFileUrl, title |-> activeFileTitle]
          \in Documents \cup {NoDocument}
    /\ activeFileContext \in {Null} \cup {TextOf(d.url) : d \in Documents}
    /\ \A i \in 1..Len(attachedFilesContext) :
          attachedFilesContext[i].name
              \in Files \cup {item.title : item \in StudyQueue}
    /\ isExtractingContext \in BOOLEAN
    /\ \A k \in 1..Len(extractions) :
          extractions[k].kind \in {"active", "queue", "upload"}
    /\ \A t \in Tabs : tabs[t].at \in {"idle", "ai-provider set"}
    /\ pdf.at \in {"idle", "loop", "returned", "rejected"}
    /\ pdf.read = [i \in 1..(pdf.i - 1) |-> i]
    /\ \A i \in 1..Len(pending) : pending[i] \in RouteBodies \/ pending[i].json
    /\ \A i \in 1..Len(responses) : responses[i].status \in {200, 400, 500}
    /\ lastOp.op \in {"init", "other", "onSubmit", "onError", "handleSaveSettings",
                     "fetchContext", "handleSelectFromQueue", "handleFileUpload",
                     "removeAttachment"}

-----------------------------------------------------------------------------
(* Properties of the sidebar (checked under Spec) *)

\* chat requests of this view that have not run to their end
InFlight == Len(pending) + Len(responses)

\* an onSubmit step
SubmitStep == lastOp'.op = "onSubmit"

\* an onSubmit step that was accepted: a request went out or a message came in
Accepted == SubmitStep /\ (pending' # pending \/ messages' # messages)

\* the typed text has a character that is not white space
NonBlank(text) == \E i \in 1..Len(text) : text[i] # " "

\* C1: while the status is submitted or streaming, onSubmit is a no-op: the
\* message list keeps its length and no request is issued; so at most one
\* chat request is in flight in every reachable state.
C1_SubmitWhileLoadingIsNoOp ==
    /\ [][(SubmitStep /\ status \in {"submitted", "streaming"})
            => /\ Len(messages') = Len(messages)
               /\ pending' = pending
               /\ responses' = responses]_vars
    /\ [](InFlight <= 1)

\* C1 witness: onSubmit ran while a response was streaming, with text typed
\* and a usable credential, and was ignored.
C1_Witness ==
    /\ lastOp.op = "onSubmit" /\ lastOp.out = "ignored"
    /\ lastOp.from = "streaming"
    /\ status = "streaming"
    /\ NonBlank(input)
    /\ savedSettings.apiKey # ""
    /\ InFlight = 1

\* C2 (as claimed): a submission is accepted only when the status is idle
\* ("ready"); in every other status, error included, it is not accepted.
C2_AcceptedOnlyWhenIdle == [][Accepted => status = "ready"]_vars

\* C2 (amended): a submission is accepted only when the status is idle or
\* error, never while submitted or streaming; in the error status a submission
\* with non-blank text and a usable credential is accepted like in idle.
C2_AcceptedOnlyWhenNotLoading ==
    [][/\ Accepted => status \in {"ready", "error"}
       /\ (/\ SubmitStep
           /\ status \in {"ready", "error"}
           /\ NonBlank(input)
           /\ (savedSettings.apiKey # "" \/ savedSettings.provider = "ollama"))
            => Accepted]_vars

\* C2 witness: after a failed turn left the status at error, a second
\* submission was accepted and its request is on its way.
C2_Witness ==
    /\ lastOp.op = "onSubmit" /\ lastOp.out = "sent"
    /\ lastOp.from = "error"
    /\ status = "submitted"
    /\ Len(pending) = 1
    /\ userTurns = 2

\* C3: onSubmit issues a request and appends a user message only if the
\* trimmed input is non-empty and a credential is saved or the provider is
\* ollama; otherwise no request is issued and the message list is unchanged.
C3_SubmissionGating ==
    [][SubmitStep =>
        IF NonBlank(input)
           /\ (savedSettings.apiKey # "" \/ savedSettings.provider = "ollama")
        THEN TRUE
        ELSE /\ messages' = messages
             /\ pending' = pending
             /\ responses' = responses
             /\ status' = status]_vars

\* C3 witness: with blank (white space only) text typed, a saved key and the
\* status idle, onSubmit ran and nothing was sent.
C3_Witness ==
    /\ lastOp.op = "onSubmit" /\ lastOp.out = "ignored"
    /\ lastOp.from = "ready"
    /\ input = <<" ">>
    /\ savedSettings.apiKey # ""
    /\ messages = <<>>
    /\ InFlight = 0

\* C4: onSubmit with non-blank text, status idle, an empty saved credential
\* and a provider other than ollama switches to the settings view; no request
\* is issued, and messages and the typed text stay as they are.
C4_RedirectToSettings ==
    [][(/\ SubmitStep
        /\ status = "ready"
        /\ NonBlank(input)
        /\ savedSettings.apiKey = ""
        /\ savedSettings.provider # "ollama")
        => /\ view' = "settings"
           /\ input' = input
           /\ messages' = messages
           /\ pending' = pending
           /\ responses' = responses
           /\ status' = "ready"]_vars

\* C4 witness: onSubmit redirected to the settings view, the typed text is
\* still in the input and nothing is in flight.
C4_Witness ==
    /\ lastOp.op = "onSubmit" /\ lastOp.out = "redirected"
    /\ lastOp.from = "ready"
    /\ view = "settings"
    /\ NonBlank(input)
    /\ savedSettings.apiKey = "" /\ savedSettings.provider = "openai"
    /\ InFlight = 0

\* C7 (as claimed): a request with provider ollama is never rejected by the
\* validation, whatever its credential; it is resolved to the ollama client
\* with model llama3.1, whose base URL is the credential when there is one
\* and http://localhost:11434/api otherwise.
C7_OllamaCredentialOptional ==
    \A i \in 1..Len(responses) :
        LET r == responses[i] IN
        (r.for.json /\ r.for.provider = "ollama")
            => /\ r.status # 400
               /\ r.model = "llama3.1"
               /\ r.client =
                    [factory |-> "createOllama", option |-> "baseURL",
                     value |-> IF r.for.apiKey \in {Null, ""}
                                  THEN "http://localhost:11434/api"
                                  ELSE r.for.apiKey]

\* C10 (as claimed): no request the sidebar posts to the chat endpoint
\* carries the API key saved in the settings view.
C10_KeyNeverSent ==
    \A i \in 1..Len(pending) :
        pending[i].provider # "ollama" => pending[i].apiKey \in {Null, ""}

-----------------------------------------------------------------------------
(* Properties of the endpoint (checked under SpecRoute) *)

MissingBody == "{\"error\":\"Missing provider or API key\"}"
InvalidBody == "{\"error\":\"Invalid provider\"}"
DefaultErrorBody == "{\"error\":\"An error occurred during chat generation\"}"

Absent(v) == v \in {Null, ""}

\* the handler created no model client, called no model and streams nothing
NothingResolved(r) ==
    /\ r.client = NoClient
    /\ r.model = Null
    /\ r.calls = 0
    /\ r.chunks = <<>>

\* C5: a request whose provider or credential is missing or empty, and whose
\* provider is not ollama, is answered 400 {"error":"Missing provider or API
\* key"}; no model client is created and no model call is made for it.
C5_MissingProviderOrKey ==
    \A i \in 1..Len(responses) :
        LET r == responses[i] IN
        (/\ r.for.json
         /\ r.for.provider # "ollama"
         /\ (Absent(r.for.provider) \/ Absent(r.for.apiKey)))
            => /\ r.status = 400
               /\ r.body = MissingBody
               /\ NothingResolved(r)

\* C5 witness: provider openai with an empty credential was answered 400.
C5_Witness ==
    \E i \in 1..Len(responses) :
        /\ responses[i].for.provider = "openai"
        /\ responses[i].for.apiKey = ""
        /\ responses[i].status = 400
        /\ responses[i].body = MissingBody

\* C6 (as claimed): every request whose provider is not one of the four is
\* answered 400 {"error":"Invalid provider"}, whatever its credential.
C6_InvalidProviderAlways ==
    \A i \in 1..Len(responses) :
        LET r == responses[i] IN
        (r.for.json /\ r.for.provider \notin Providers)
            => r.status = 400 /\ r.body = InvalidBody

\* C6 (amended): every request whose provider is not one of the four is
\* answered 400 and nothing is resolved for it; the body is {"error":"Invalid
\* provider"} when provider and credential are both non-empty, and
\* {"error":"Missing provider or API key"} when either is missing or empty.
\* The accepted providers are exactly the four: a model client exists only
\* for them, and each of them is accepted with a non-empty credential.
C6_InvalidProvider ==
    \A i \in 1..Len(responses) :
        LET r == responses[i] IN
        r.for.json =>
            /\ r.for.provider \notin Providers
                => /\ r.status = 400
                   /\ NothingResolved(r)
                   /\ r.body = IF Absent(r.for.provider) \/ Absent(r.for.apiKey)
                                  THEN MissingBody ELSE InvalidBody
            /\ r.client # NoClient => r.for.provider \in Providers
            /\ (r.for.provider \in Providers /\ ~Absent(r.for.apiKey))
                => r.status # 400 /\ r.client # NoClient

\* C6 witness: provider bogus with credential k1 was answered Invalid provider.
C6_Witness ==
    \E i \in 1..Len(responses) :
        /\ responses[i].for.provider = "bogus"
        /\ responses[i].for.apiKey = "k1"
        /\ responses[i].status = 400
        /\ responses[i].body = InvalidBody

FixedModel ==
    [openai |-> "gpt-4o", anthropic |-> "claude-3-5-sonnet-latest",
     google |-> "gemini-2.5-flash", ollama |-> "llama3.1"]

ClientFactory ==
    [openai |-> "createOpenAI", anthropic |-> "createAnthropic",
     google |-> "createGoogleGenerativeAI", ollama |-> "createOllama"]

\* a request that passes the endpoint's validation
PassesValidation(q) ==
    q.json /\ q.provider \in Providers /\ ~Absent(q.apiKey)

\* C8: every request that passes validation is resolved to the one fixed
\* model of its provider, with a client built from the credential of that
\* very request (the API key, or the base URL for ollama).
C8_FixedModelPerRequest ==
    \A i \in 1..Len(responses) :
        LET r == responses[i] IN
        PassesValidation(r.for) =>
            /\ r.model = FixedModel[r.for.provider]
            /\ r.client.factory = ClientFactory[r.for.provider]
            /\ r.client.option =
                   (IF r.for.provider = "ollama" THEN "baseURL" ELSE "apiKey")
            /\ r.client.value = r.for.apiKey

\* C8 witness: an ollama request with its own base URL is being streamed from
\* a client built on that URL.
C8_Witness ==
    \E i \in 1..Len(responses) :
        /\ responses[i].for.provider = "ollama"
        /\ responses[i].for.apiKey = "http://host:11434/api"
        /\ responses[i].status = 200
        /\ responses[i].model = "llama3.1"
        /\ responses[i].client.value = "http://host:11434/api"

\* C9: a response that is not streamed carries a JSON body {error: string}:
\* 400 exactly when the validation of provider and credential fails, 500 when
\* something was thrown, the error then being the thrown error's message or
\* the fixed default when the message is empty; streamText is called at most
\* once per request.
C9_ErrorResponses ==
    \A i \in 1..Len(responses) :
        LET r == responses[i] IN
        /\ r.calls <= 1
        /\ r.status \in {200, 400, 500}
        /\ r.status = 200 => r.raised = Null /\ r.chunks # <<>>
        /\ r.status # 200 =>
            /\ r.chunks = <<>>
            /\ r.body \notin {Null, "", "{\"error\":\"\"}"}
            /\ r.status = 400 <=> (r.for.json /\ ~PassesValidation(r.for))
            /\ r.status = 400 => r.body \in {MissingBody, InvalidBody}
            /\ r.status = 500 =>
                /\ r.raised # Null
                /\ r.body = IF r.raised = "" THEN DefaultErrorBody
                            ELSE "{\"error\":\"" \o r.raised \o "\"}"

\* C9 witness: the model invocation threw an error without a message and the
\* answer is 500 with the default error string.
C9_Witness ==
    \E i \in 1..Len(responses) :
        /\ PassesValidation(responses[i].for)
        /\ responses[i].status = 500
        /\ responses[i].raised = ""
        /\ responses[i].calls = 1
        /\ responses[i].body = DefaultErrorBody

-----------------------------------------------------------------------------
(* The context sent with a message *)

\* a message was sent by the step
Sent == lastOp'.op = "onSubmit" /\ lastOp'.out = "sent"

\* the request of the message just sent
Request == pending[Len(pending)]

\* a section: its header names the kind and the document, the text follows
Section(kind, name, text) ==
    "--- " \o kind \o " Document: " \o name \o " ---" \o "\n" \o text

ActivePresent == Truthy(activeFileTitle) /\ Truthy(activeFileContext)

\* the sections of the state: the active document, then the attachment list
Sections ==
    (IF ActivePresent
        THEN <<Section("Active", activeFileTitle, activeFileContext)>>
        ELSE <<>>)
    \o [i \in 1..Len(attachedFilesContext) |->
            Section("Attached", attachedFilesContext[i].name,
                    attachedFilesContext[i].content)]

RECURSIVE BlankLineJoined(_)
\* the sections with one blank line between neighbours
BlankLineJoined(secs) ==
    IF Len(secs) = 1 THEN secs[1]
    ELSE BlankLineJoined(SubSeq(secs, 1, Len(secs) - 1))
            \o "\n" \o "\n" \o secs[Len(secs)]

\* C11: the context sent with a message is the section of the active
\* document, when there is one, followed by one section per attachment in
\* the order of the attachment list, whatever the insertions and removals
\* that produced the list; the sections are separated by a blank line and
\* each starts with the header of its kind and document name.
C11_AggregatedContextOrder ==
    [][(Sent /\ Sections # <<>>)
          => Request'.context = BlankLineJoined(Sections)]_vars

\* a message sent with the active document and two attachments, the list
\* being one that a removal has passed over
C11_Witness ==
    /\ lastOp.op = "onSubmit" /\ lastOp.out = "sent"
    /\ ActivePresent
    /\ Len(attachedFilesContext) = 2
    /\ attachedFilesContext[1].name = "Q2"
    /\ attachedFilesContext[2].name = "f1.pdf"
    /\ Request.context = BlankLineJoined(Sections)

\* C12: a message sent with no active context and no attachment carries no
\* context field at all, in particular not an empty string; a message sent
\* when there is at least one section carries the joined sections.
C12_ContextFieldOnlyWithSections ==
    [][Sent =>
          /\ (~Truthy(activeFileContext) /\ attachedFilesContext = <<>>)
                => Request'.context = Null
          /\ Sections = <<>> => Request'.context = Null
          /\ Sections # <<>>
                => /\ Truthy(Request'.context)
                   /\ Request'.context = BlankLineJoined(Sections)]_vars

\* a message sent while nothing is open and nothing is attached
C12_Witness ==
    /\ lastOp.op = "onSubmit" /\ lastOp.out = "sent"
    /\ activeFileContext = Null
    /\ attachedFilesContext = <<>>
    /\ Request.context = Null

-----------------------------------------------------------------------------
(* The attachment list *)

\* the step is removeAttachment(i)
Removes(i) == lastOp'.op = "removeAttachment" /\ lastOp'.from = ToString(i)

\* C14: removeAttachment(i) on a list of length N with 0 <= i < N leaves the
\* N-1 other attachments in their order, the i-th one (counted from 0) gone;
\* with an index outside the list it leaves the list as it is.
C14_RemoveAttachment ==
    [][\A i \in RemoveIndices :
          Removes(i) =>
             LET old == attachedFilesContext
                 new == attachedFilesContext'
             IN  IF i >= 0 /\ i < Len(old)
                    THEN /\ Len(new) = Len(old) - 1
                         /\ \A j \in 1..Len(new) :
                               new[j] = IF j <= i THEN old[j] ELSE old[j + 1]
                    ELSE new = old]_vars

\* the middle one of three attachments has been removed
C14_Witness ==
    /\ lastOp.op = "removeAttachment"
    /\ lastOp.from = "1"
    /\ Len(attachedFilesContext) = 2

\* the names of the attachment list, in its order
Names(list) == [i \in 1..Len(list) |-> list[i].name]

\* the url or File that a document attached under this name is read from
SourceOf(name) ==
    IF \E item \in StudyQueue : item.title = name
       THEN (CHOOSE item \in StudyQueue : item.title = name).url
       ELSE name

\* the step settles the extraction of an attachment with this outcome
Settles(name, out) ==
    /\ lastOp'.op \in {"handleFileUpload", "handleSelectFromQueue"}
    /\ lastOp'.out = out
    /\ lastOp'.from = name

\* the extraction awaited for the document of this name
Awaited(name) ==
    CHOOSE k \in 1..Len(extractions) : extractions[k].name = name

AttachNames == Files \cup {item.title : item \in StudyQueue}

-----------------------------------------------------------------------------
(* Extractions that race or fail *)

\* the awaited extractions of the active document
ActiveExtractions ==
    {k \in 1..Len(extractions) : extractions[k].kind = "active"}

\* C15: whenever no extraction of the active document is awaited, the active
\* context is absent or the text of the document that is open now, also when
\* the open document changed while an extraction was awaited and the
\* extractions settle out of order.
C15_ActiveContextOfOpenDocument ==
    ActiveExtractions = {}
        => \/ activeFileContext = Null
           \/ Truthy(activeFileUrl) /\ activeFileContext = TextOf(activeFileUrl)

\* the step is the failure of an extraction
Fails == lastOp'.out = "failed"

FailsActive == Fails /\ lastOp'.op = "fetchContext"

FailsAttachment ==
    Fails /\ lastOp'.op \in {"handleFileUpload", "handleSelectFromQueue"}

\* C16: every failed extraction, of the active document, of an uploaded file
\* or of a queue selection, raises a warning the user sees and leaves the
\* context of its document absent.
C16_FailureWarnsAndLeavesAbsent ==
    [][/\ Fails => lastOp'.alert # NoAlert
       /\ FailsActive => activeFileContext' = Null
       /\ FailsAttachment
            => \A i \in 1..Len(attachedFilesContext') :
                  attachedFilesContext'[i].name # lastOp'.from]_vars

\* C17, as stated: a failed extraction leaves the attachment list as it was
\* and a failed extraction of the active document keeps an active context
\* that was extracted before.
C17_FailureKeepsEveryEntry ==
    [][Fails => /\ attachedFilesContext' = attachedFilesContext
                /\ Truthy(activeFileContext)
                      => activeFileContext' = activeFileContext]_vars

\* C17, amended: a failed extraction of any kind leaves the attachment list
\* as it was; a failed upload or queue selection leaves the active context
\* as it was, and a failed extraction of the active document sets the active
\* context to absent whatever it held.
C17_FailureKeepsAttachments ==
    [][/\ Fails => attachedFilesContext' = attachedFilesContext
       /\ FailsAttachment => activeFileContext' = activeFileContext
       /\ FailsActive => activeFileContext' = Null]_vars

\* an extraction of the active document has failed beside two attachments
C17_Witness ==
    /\ lastOp.op = "fetchContext"
    /\ lastOp.out = "failed"
    /\ activeFileContext = Null
    /\ Len(attachedFilesContext) = 2

\* C18: the extractions of several attachments are awaited independently:
\* no file of an upload and no selected queue item waits for another
\* extraction to settle before its own starts.
C18_NoFileWaits ==
    \A k \in 1..Len(extractions) :
        \A n \in 1..Len(extractions[k].files) :
            n <= extractions[k].i + 1

-----------------------------------------------------------------------------
(* The extraction functions of lib/pdf-extract, one page at a time *)

\* the largest number of pages of a document
MaxNumPages == 60

\* Math.min(numPages, 50): the pages read at most
MaxPagesCap == 50

Min(a, b) == IF a < b THEN a ELSE b

\* textContent.items.map(item => item.str).join(' ') of page i
PageText(i) == "page" \o ToString(i)

\* the note appended to a truncated document
TruncationNote(maxPages) ==
    "\n\n[Note: Document truncated to first " \o ToString(maxPages)
        \o " pages due to size limits.]"

FileTypes == {"application/pdf", "text/plain"}

\* no call is running
Idle == pdf.at \in {"idle", "returned", "rejected"}

\* the variables of the sidebar, which the extraction functions do not touch
sidebarVars ==
    <<mounted, view, settingsVars, input, chatVars, activeFileTitle,
      activeFileUrl, activeFileContext, attachedFilesContext,
      isExtractingContext, extractions, tabs, netVars, lastOp>>

\* a call at the head of its loop, the document loaded
Loaded(fn, numPages) ==
    [NoPdf EXCEPT !.fn = fn, !.numPages = numPages,
                  !.maxPages = Min(numPages, MaxPagesCap), !.at = "loop"]

Rejected(fn, message) ==
    [NoPdf EXCEPT !.fn = fn, !.at = "rejected", !.result = message]

\* extractTextFromPdfUrl(url) up to its loop: getDocument loads a document
\* of numPages pages, or fails and the catch rethrows
extractTextFromPdfUrl(numPages, ok) ==
    /\ Idle
    /\ pdf' = IF ok THEN Loaded("extractTextFromPdfUrl", numPages)
                    ELSE Rejected("extractTextFromPdfUrl",
                                  "Could not read PDF contents")
    /\ UNCHANGED sidebarVars

\* extractTextFromFile(file) up to its loop, or to the end for a text file
extractTextFromFile(type, numPages, ok) ==
    /\ Idle
    /\ pdf' = IF ~ok THEN Rejected("extractTextFromFile", "pdf.js error")
              ELSE IF type = "application/pdf"
                      THEN Loaded("extractTextFromFile", numPages)
              ELSE [Loaded("extractTextFromFile", 0) EXCEPT
                        !.at = "returned", !.result = "file.text()"]
    /\ UNCHANGED sidebarVars

\* one turn of the loop: page i is read and its text appended, or the read
\* fails: the function by URL rethrows its own error, the other one has no
\* catch
readPage(ok) ==
    /\ pdf.at = "loop"
    /\ pdf.i <= pdf.maxPages
    /\ pdf' = IF ok
                 THEN [pdf EXCEPT !.fullText = @ \o PageText(pdf.i) \o "\n\n",
                                  !.read = Append(@, pdf.i),
                                  !.i = @ + 1]
                 ELSE Rejected(pdf.fn,
                               IF pdf.fn = "extractTextFromPdfUrl"
                                  THEN "Could not read PDF contents"
                                  ELSE "pdf.js error")
    /\ UNCHANGED sidebarVars

\* what the function returns after its loop: only extractTextFromPdfUrl has
\* the test numPages > maxPages and the note
textAfterLoop ==
    IF pdf.fn = "extractTextFromPdfUrl" /\ pdf.numPages > pdf.maxPages
       THEN pdf.fullText \o TruncationNote(pdf.maxPages)
       ELSE pdf.fullText

\* the loop is over: return fullText
returnText ==
    /\ pdf.at = "loop"
    /\ pdf.i > pdf.maxPages
    /\ pdf' = [pdf EXCEPT !.at = "returned", !.result = textAfterLoop]
    /\ UNCHANGED sidebarVars

NextExtract ==
    \/ \E n \in 1..MaxNumPages, ok \in BOOLEAN : extractTextFromPdfUrl(n, ok)
    \/ \E type \in FileTypes, n \in 1..MaxNumPages, ok \in BOOLEAN :
          extractTextFromFile(type, n, ok)
    \/ \E ok \in BOOLEAN : readPage(ok)
    \/ returnText

SpecExtract == Init /\ [][NextExtract]_vars

RECURSIVE TextOfPages(_)
\* the texts of pages 1..m in page order, a blank line after each
TextOfPages(m) ==
    IF m = 0 THEN "" ELSE TextOfPages(m - 1) \o PageText(m) \o "\n" \o "\n"

\* a call on a PDF has returned
ReturnedPdf == pdf.at = "returned" /\ pdf.numPages > 0

\* C19: for a PDF of n pages, by URL or as a local file, the pages read are
\* 1..min(n, 50) in ascending order, the result is their texts in page order,
\* and the truncation note ends the result if and only if n > 50.
C19_FirstFiftyPagesAndNote ==
    ReturnedPdf =>
        LET n == pdf.numPages
            m == Min(n, MaxPagesCap)
        IN  /\ pdf.read = [i \in 1..m |-> i]
            /\ pdf.result =
                  TextOfPages(m)
                     \o (IF n > MaxPagesCap THEN TruncationNote(MaxPagesCap) ELSE "")

-----------------------------------------------------------------------------
(* The chat and the documents together: messages are sent and answered     *)
(* while one document is opened and closed, one file and one queue item    *)
(* are attached and removed, one extraction being awaited at a time.       *)

DocumentsChat == {[url |-> "a.pdf", title |-> "A"], NoDocument}

QueueChat == {[url |-> "q1.pdf", title |-> "Q1"]}

FileListsChat == {<<"f1.pdf">>}

\* no extraction is awaited
Alone == extractions = <<>>

NextChatDocs ==
    \/ LoadSettings
    \/ \E v \in InputsCtx : handleInputChange(v)
    \/ onSubmit
    \/ POST
    \/ readResponse
    \/ \E doc \in DocumentsChat : Alone /\ openDocument(doc)
    \/ \E item \in QueueChat :
          /\ Alone /\ Fresh(<<item.title>>)
          /\ handleSelectFromQueue(item.url, item.title)
    \/ \E files \in FileListsChat : Alone /\ Fresh(files) /\ handleFileUpload(files)
    \/ \E k \in 1..Len(extractions), ok \in BOOLEAN : fetchContextSettle(k, ok)
    \/ \E k \in 1..Len(extractions), ok \in BOOLEAN :
          handleSelectFromQueueSettle(k, ok)
    \/ \E k \in 1..Len(extractions), ok \in BOOLEAN : handleFileUploadSettle(k, ok)
    \/ \E idx \in {0, 1} : removeAttachment(idx)

SpecChatDocs == InitCtx /\ [][NextChatDocs]_vars

\* the step is one of the document handlers or the end of an extraction
DocumentStep ==
    lastOp'.op \in {"fetchContext", "handleSelectFromQueue", "handleFileUpload",
                    "removeAttachment"}

\* the chat view of the mounted sidebar, where the document controls are
ChatView == mounted /\ view = "chat"

\* C20: attaching a file or a queue item, removing an attachment and
\* changing the open document are possible in every chat status and leave
\* the status, the messages and the requests as they are; with an extraction
\* awaited a submission is possible, and one with text and a credential
\* outside a turn is accepted.
C20_DocumentsIndependentOfChat ==
    /\ [][DocumentStep => UNCHANGED <<status, messages, pending, responses>>]_vars
    /\ [](ChatView =>
            /\ \A files \in FileListsChat : ENABLED handleFileUpload(files)
            /\ \A item \in QueueChat :
                  ENABLED handleSelectFromQueue(item.url, item.title)
            /\ \A idx \in {0, 1} : ENABLED removeAttachment(idx)
            /\ \A doc \in DocumentsChat :
                  doc.url # activeFileUrl => ENABLED openDocument(doc)
            /\ (extractions # <<>> /\ userTurns < MaxTurns) => ENABLED onSubmit)
    /\ [][(/\ SubmitStep
           /\ extractions # <<>>
           /\ NonBlank(input)
           /\ status \notin {"submitted", "streaming"}
           /\ Truthy(savedSettings.apiKey)) => Accepted]_vars

\* a file has been attached while the answer to a message is streaming
C20_Witness ==
    /\ status = "streaming"
    /\ lastOp.op = "handleFileUpload"
    /\ lastOp.out = "extracted"
    /\ Len(attachedFilesContext) >= 1
    /\ Len(messages) >= 2

-----------------------------------------------------------------------------
(* The messages of a turn *)

\* the step reads a chunk of this type from the response being streamed
ReadsChunk(type) ==
    /\ responses # <<>>
    /\ Head(responses).status = 200
    /\ Head(Head(responses).chunks).type = type
    /\ pending' = pending
    /\ responses' # responses

\* the deltas 1..k in the order the provider emits them
Emitted(k) == [j \in 1..k |-> delta(j)]

\* the text of the assistant message in progress, empty before its first delta
InProgress(msgs) ==
    IF msgs # <<>> /\ msgs[Len(msgs)].role = "assistant"
       THEN msgs[Len(msgs)].text
       ELSE <<>>

\* the texts of the deltas that a response still has to deliver
Undelivered(r) ==
    LET ds == SelectSeq(r.chunks, LAMBDA c : c.type = "text-delta")
    IN  [j \in 1..Len(ds) |-> ds[j].text]

\* C21: each delta read while a response streams goes to the end of the one
\* assistant message in progress, in the order of emission, and makes no
\* message of its own: an accepted submission adds one user message, every
\* assistant message follows a user message and holds the deltas 1..k of its
\* response, and reading the end of the stream sets the status to ready.
C21_DeltasIntoOneMessage ==
    /\ [][ReadsChunk("text-delta") =>
            /\ InProgress(messages') =
                  Append(InProgress(messages), Head(Head(responses).chunks).text)
            /\ userTurns' = userTurns
            /\ Len(messages') =
                  Len(messages) + (IF InProgress(messages) = <<>> THEN 1 ELSE 0)]_vars
    /\ [](\A i \in 1..Len(messages) :
            messages[i].role = "assistant"
                => /\ i > 1
                   /\ messages[i - 1].role = "user"
                   /\ \E k \in 1..MaxDeltas : messages[i].text = Emitted(k))
    /\ [][Accepted => /\ Len(messages') = Len(messages) + 1
                      /\ messages'[Len(messages')].role = "user"]_vars
    /\ [][ReadsChunk("finish") => status' = "ready" /\ messages' = messages]_vars

\* a stream of two deltas has completed
C21_Witness ==
    /\ status = "ready"
    /\ Len(messages) = 2
    /\ messages[2].role = "assistant"
    /\ messages[2].text = Emitted(2)
    /\ responses = <<>>

\* C22: when the provider fails after part of the response has streamed,
\* the deltas streamed before the failure stay in the assistant message: at
\* any time the message in progress followed by the deltas still to come is
\* the sequence emitted, and reading the error that ends the stream leaves
\* the messages as they are, sets the status to error and raises the alert.
C22_PartialStreamKept ==
    /\ []((responses # <<>> /\ Head(responses).status = 200)
            => \E k \in 0..MaxDeltas :
                  InProgress(messages) \o Undelivered(Head(responses)) = Emitted(k))
    /\ [][ReadsChunk("error") =>
            /\ messages' = messages
            /\ status' = "error"
            /\ lastOp'.op = "onError"
            /\ lastOp'.alert = "An error occurred."]_vars

\* a stream has failed after its second delta
C22_Witness ==
    /\ status = "error"
    /\ lastOp.op = "onError"
    /\ lastOp.alert = "An error occurred."
    /\ Len(messages) = 2
    /\ InProgress(messages) = Emitted(2)

\* s is an initial part of t
IsPrefix(s, t) == Len(s) <= Len(t) /\ SubSeq(t, 1, Len(s)) = s

\* C23: the message list only grows: every step keeps each message at its
\* place with its role, a user message and an assistant message of an
\* earlier turn exactly as they were, and the assistant message in progress
\* with everything it held before.
C23_MessagesOnlyGrow ==
    [][/\ Len(messages') >= Len(messages)
       /\ \A i \in 1..Len(messages) :
             /\ messages'[i].role = messages[i].role
             /\ (messages[i].role = "user" \/ i < Len(messages))
                   => messages'[i] = messages[i]
             /\ messages[i].role = "assistant"
                   => IsPrefix(messages[i].text, messages'[i].text)]_vars

\* the second turn has failed and the first turn is there as it was
C23_Witness ==
    /\ lastOp.op = "onError"
    /\ status = "error"
    /\ Len(messages) >= 3
    /\ messages[1].role = "user"
    /\ messages[2].role = "assistant"
    /\ messages[2].text = Emitted(2)
    /\ messages[3].role = "user"

-----------------------------------------------------------------------------
(* The chat on its own, with settings stored: every request posted is      *)
(* answered by the endpoint and every response is read to its end.         *)

NextChat ==
    \/ LoadSettings
    \/ \E v \in InputTexts : handleInputChange(v)
    \/ onSubmit
    \/ POST
    \/ readResponse

SpecChat ==
    InitCtx /\ [][NextChat]_vars /\ WF_vars(POST) /\ WF_vars(readResponse)

\* the step changes the status from one of these values to the other
Turns(from, to) == status = from /\ status' = to

\* C24, as stated: the status only goes ready to submitted to streaming to
\* ready, or from submitted or streaming to error and from error to ready.
C24_StatusCycleThroughIdle ==
    [][status' # status =>
          \/ Turns("ready", "submitted")
          \/ Turns("submitted", "streaming")
          \/ Turns("streaming", "ready")
          \/ Turns("submitted", "error")
          \/ Turns("streaming", "error")
          \/ Turns("error", "ready")]_vars

\* C24, amended: the status goes ready to submitted to streaming to ready,
\* or from submitted or streaming to error with an alert; it stays error
\* until an accepted submission takes it to submitted, which is the only way
\* into submitted; and every turn under way ends in ready or in error.
C24_StatusCycle ==
    /\ [][status' # status =>
            \/ Turns("ready", "submitted")
            \/ Turns("error", "submitted")
            \/ Turns("submitted", "streaming")
            \/ Turns("streaming", "ready")
            \/ Turns("submitted", "error")
            \/ Turns("streaming", "error")]_vars
    /\ [][(status' # status /\ status' = "submitted") => Accepted]_vars
    /\ [][(status' # status /\ status' = "error")
            => lastOp'.op = "onError" /\ lastOp'.alert # NoAlert]_vars
    /\ (status \in {"submitted", "streaming"}) ~> (status \in {"ready", "error"})

\* a message has been accepted in the status a failed turn left
C24_Witness ==
    /\ status = "submitted"
    /\ lastOp.op = "onSubmit"
    /\ lastOp.out = "sent"
    /\ lastOp.from = "error"

-----------------------------------------------------------------------------
(* Two tabs saving their settings to the one store.  A tab runs its         *)
(* handleSaveSettings without interruption by its own events, but the store *)
(* is shared between the processes of the tabs without a lock, so the two   *)
(* setItem calls of one save are two steps for the other tab.               *)

\* what the variables other than the store and the tabs are left as
savesLeave ==
    UNCHANGED <<mounted, view, provider, apiKey, savedSettings, input, chatVars,
                activeFileTitle, activeFileUrl, activeFileContext,
                attachedFilesContext, isExtractingContext, extractions, pdf,
                netVars>>

\* localStorage.setItem("ai-provider", provider) of tab t, whose form holds
\* the provider p and the key k
setItemProvider(t, p, k) ==
    /\ tabs[t].at = "idle"
    /\ localStorage' = [localStorage EXCEPT !.provider = p]
    /\ tabs' = [tabs EXCEPT ![t] = [@ EXCEPT !.provider = p, !.apiKey = k,
                                              !.at = "ai-provider set"]]
    /\ lastOp' = Op("handleSaveSettings", "ai-provider set", NoAlert, t)
    /\ savesLeave

\* localStorage.setItem("ai-api-key", apiKey) of tab t and the end of its
\* handleSaveSettings
setItemApiKey(t) ==
    /\ tabs[t].at = "ai-provider set"
    /\ localStorage' = [localStorage EXCEPT !.apiKey = tabs[t].apiKey]
    /\ tabs' = [tabs EXCEPT ![t] =
                    [@ EXCEPT !.at = "idle",
                              !.saved = [provider |-> tabs[t].provider,
                                         apiKey |-> tabs[t].apiKey]]]
    /\ lastOp' = Op("handleSaveSettings", "saved", "Settings saved successfully!", t)
    /\ savesLeave

NextTabs ==
    \/ \E t \in Tabs, p \in Providers, k \in KeyTexts : setItemProvider(t, p, k)
    \/ \E t \in Tabs : setItemApiKey(t)

SpecTabs == Init /\ [][NextTabs]_vars

\* the pairs that the tabs have saved last
SavedPairs == {tabs[t].saved : t \in {u \in Tabs : tabs[u].saved # NoSave.saved}}

\* C25: once the saves of two tabs are over, in whatever way their steps
\* interleaved, the store holds the pair that one of the tabs saved, never
\* the provider of one tab with the credential of the other.
C25_StoredPairOfOneWriter ==
    ((\A t \in Tabs : tabs[t].at = "idle") /\ SavedPairs # {})
        => localStorage \in SavedPairs

-----------------------------------------------------------------------------
(* One request and one extraction per act of the user *)

\* the extractions after the step are those before it without the k-th one,
\* or with the next file of its batch in its place
SettledAt(k) ==
    /\ \A j \in 1..(k - 1) : extractions'[j] = extractions[j]
    /\ \/ /\ Len(extractions') = Len(extractions) - 1
          /\ \A j \in k..Len(extractions') : extractions'[j] = extractions[j + 1]
       \/ /\ Len(extractions') = Len(extractions)
          /\ extractions[k].kind = "upload"
          /\ extractions'[k].kind = "upload"
          /\ extractions'[k].files = extractions[k].files
          /\ extractions'[k].i = extractions[k].i + 1
          /\ extractions'[k].src # extractions[k].src
          /\ \A j \in (k + 1)..Len(extractions) : extractions'[j] = extractions[j]

\* C26: nothing is retried: requests are posted only by accepted
\* submissions, one each, and extractions are started only by the document
\* handlers, one each; a failed chat turn, whatever made it fail, posts no
\* request and starts no extraction, and a failed extraction only leaves the
\* extractions awaited, or lets its batch go on to its next file.
C26_NoAutomaticRetry ==
    /\ [][Len(pending') > Len(pending)
            => /\ Sent
               /\ Len(pending') = Len(pending) + 1
               /\ userTurns' = userTurns + 1]_vars
    /\ [](Len(pending) + Len(responses) <= 1)
    /\ [][lastOp'.op = "onError"
            => /\ pending' = pending
               /\ responses' = Tail(responses)
               /\ extractions' = extractions]_vars
    /\ [][extractions' # extractions
            => \/ /\ lastOp'.out = "started"
                  /\ extractions' =
                        Append(extractions, extractions'[Len(extractions')])
               \/ /\ lastOp'.out \in {"extracted", "failed"}
                  /\ \E k \in 1..Len(extractions) : SettledAt(k)]_vars
    /\ [][Fails => /\ \E k \in 1..Len(extractions) : SettledAt(k)
                   /\ pending' = pending]_vars

\* a chat turn has failed and nothing is on its way
C26_Witness ==
    /\ lastOp.op = "onError"
    /\ status = "error"
    /\ userTurns = 1
    /\ pending = <<>>
    /\ responses = <<>>
    /\ extractions = <<>>

-----------------------------------------------------------------------------
(* The active document at a submission, and the extracting flag *)

\* the url of the document that the props show under this title
UrlTitled(title) == (CHOOSE d \in Documents : d.title = title).url

\* C27: a message sent with an active-document section carries, under the
\* title of the open document, the text extracted from that document.
C27_SectionOfOpenDocument ==
    [][(Sent /\ ActivePresent)
          => activeFileContext = TextOf(UrlTitled(activeFileTitle))]_vars

\* C29: isExtractingContext is true exactly when an extraction of the
\* active document or of a queue selection is awaited.
C29_FlagTracksExtractions ==
    isExtractingContext
        <=> \E k \in 1..Len(extractions) :
               extractions[k].kind \in {"active", "queue"}

-----------------------------------------------------------------------------
(* Requests the endpoint cannot read (checked under SpecRoute) *)

\* the handler threw at line 11, before its validation and before any model
RaisedBeforeResolution(r) == ~r.for.json

\* C30: a request whose body is not JSON, whose handling therefore raises
\* before a model is resolved, is answered 500 with the JSON body {error:
\* message of the error} and not 400; for every request answered 400, and
\* for every one answered 500 before resolution, no model client is created,
\* no model is called and nothing is streamed.
C30_UnreadableBodyIs500 ==
    \A i \in 1..Len(responses) :
        LET r == responses[i] IN
        /\ RaisedBeforeResolution(r) =>
              /\ r.status = 500
              /\ Truthy(r.raised)
              /\ r.body = errorBody(r.raised)
        /\ (r.status = 400 \/ (r.status = 500 /\ RaisedBeforeResolution(r)))
              => NothingResolved(r)

\* C30 witness: a body that is not JSON was answered 500, with no client.
C30_Witness ==
    \E i \in 1..Len(responses) :
        /\ ~responses[i].for.json
        /\ responses[i].status = 500
        /\ responses[i].client = NoClient
        /\ responses[i].chunks = <<>>

-----------------------------------------------------------------------------
(* The saved settings and the settings form *)

\* the settings form after this step differs from the one before it
FormEdited == provider' # provider \/ apiKey' # apiKey

\* the step is the load-settings effect of the mount
Mounts == ~mounted /\ mounted'

\* the step is the Save button's handler
Saves == lastOp'.op = "handleSaveSettings"

\* what the load-settings effect makes of the store: an absent or empty item
\* leaves the default of the state cell
LoadedPair ==
    [provider |-> IF Absent(localStorage.provider) THEN "google"
                  ELSE localStorage.provider,
     apiKey |-> IF Absent(localStorage.apiKey) THEN "" ELSE localStorage.apiKey]

\* C28: the saved settings change only when Save is pressed, to the pair of
\* the form, and at mount, to the pair loaded from the store; the store is
\* written only by Save, with that same pair.  A submission that is not
\* ignored is redirected exactly when the saved pair has no credential and
\* a provider other than ollama, and a request carries the saved pair:
\* an edit of the form without Save changes neither of them.
C28_SavedPairGatesAndIsSent ==
    /\ [][localStorage' # localStorage
            => Saves /\ localStorage' = [provider |-> provider, apiKey |-> apiKey]]_vars
    /\ [][savedSettings' # savedSettings
            => \/ Saves /\ savedSettings' = [provider |-> provider, apiKey |-> apiKey]
               \/ Mounts /\ savedSettings' = LoadedPair]_vars
    /\ [][(FormEdited /\ ~Mounts)
            => /\ savedSettings' = savedSettings
               /\ localStorage' = localStorage
               /\ pending' = pending]_vars
    /\ [][(SubmitStep /\ lastOp'.out # "ignored")
            => /\ lastOp'.out \in {"redirected", "sent"}
               /\ lastOp'.out = "redirected"
                     <=> (Absent(savedSettings.apiKey)
                            /\ savedSettings.provider # "ollama")]_vars
    /\ [][pending' # pending /\ Len(pending') > Len(pending)
            => /\ Sent
               /\ pending' = Append(pending, pending'[Len(pending')])
               /\ pending'[Len(pending')].provider = savedSettings.provider
               /\ pending'[Len(pending')].apiKey = savedSettings.apiKey]_vars

\* C28 witness: a message was sent with the saved pair while the settings
\* form holds another provider and another key that were never saved.
C28_Witness ==
    /\ lastOp.op = "onSubmit"
    /\ lastOp.out = "sent"
    /\ provider # savedSettings.provider
    /\ apiKey # savedSettings.apiKey
    /\ pending # <<>>
    /\ Request.provider = savedSettings.provider
    /\ Request.apiKey = savedSettings.apiKey
    /\ localStorage = savedSettings

====
